---- MODULE Spec2Model ----
(***************************************************************************)
(* Greensboro AI chat: the chat orchestrator of src/app/page.tsx and the   *)
(* two relay route handlers (src/unnamed/part_001 is the Prompt Relay,     *)
(* /api/prompt; src/unnamed/part_000 is the Data Relay, /api/data).        *)
(*                                                                         *)
(* Text is a sequence of one-token strings, so that trim() and the decimal *)
(* rendering of numbers are computed.  A JSON text is the pair             *)
(* <<"json", v>> (the serialisation of the value v) or <<"raw", s>> (text  *)
(* that is no JSON).  JSON values are records: objects by their fields,    *)
(* null as JsonNull.                                                       *)
(***************************************************************************)
EXTENDS Integers, Sequences, FiniteSets

VARIABLES
    showWelcome,    \* page.tsx:98   useState(true)
    selectedItem,   \* page.tsx:99   useState<EventData | null>(null)
    messages,       \* page.tsx:100  useState<ChatMessage[]>([])
    input,          \* page.tsx:101  useState("")
    isLoading,      \* page.tsx:102  useState(false)
    runs,           \* executions of handleSubmit suspended at an await, with
                    \* the HTTP exchange each one waits for
    now,            \* the clock read by Date.now() and new Date()
    exchange        \* the last exchange a relay handled for an outside caller

vars == <<showWelcome, selectedItem, messages, input, isLoading, runs, now, exchange>>

uiVars == <<showWelcome, selectedItem, messages, input, isLoading, runs, now>>

----------------------------------------------------------------------------
(* Bounds of the model *)

MaxSubmits == 2     \* accepted submissions per session

MaxClock == 1       \* clock ticks per session

Epoch == 2          \* the clock reading when the page loads

----------------------------------------------------------------------------
(* Text *)

Blank == " "

IsSpace(c) == c = Blank

RECURSIVE TrimStart(_)
TrimStart(s) ==
    IF s = <<>> THEN <<>>
    ELSE IF IsSpace(Head(s)) THEN TrimStart(Tail(s)) ELSE s

RECURSIVE TrimEnd(_)
TrimEnd(s) ==
    IF s = <<>> THEN <<>>
    ELSE IF IsSpace(s[Len(s)]) THEN TrimEnd(SubSeq(s, 1, Len(s) - 1)) ELSE s

\* String.prototype.trim
Trim(s) == TrimEnd(TrimStart(s))

DigitChar(d) == <<"0", "1", "2", "3", "4", "5", "6", "7", "8", "9">>[d + 1]

\* Number.prototype.toString, for a natural number
RECURSIVE ToString(_)
ToString(n) ==
    IF n < 10 THEN <<DigitChar(n)>>
    ELSE Append(ToString(n \div 10), DigitChar(n % 10))

----------------------------------------------------------------------------
(* JSON *)

JsonNull == [null |-> TRUE]

\* A field holding Undefined is an absent field: JSON.stringify drops it.
Undefined == "undefined"

IsNull(v) == DOMAIN v = {"null"}

HasField(v, f) == f \in DOMAIN v

\* obj.field, undefined when the object has no such field
Field(v, f) == IF HasField(v, f) THEN v[f] ELSE Undefined

JSONstringify(v) == <<"json", v>>

\* JSON.parse: a value, or a SyntaxError
JSONparse(t) ==
    IF t[1] = "json" THEN [ok |-> TRUE, value |-> t[2]] ELSE [ok |-> FALSE]

----------------------------------------------------------------------------
(* HTTP: what a fetch() settles to, and the requests the code builds *)

\* fetch() rejected: the call never completed
NetFail == [kind |-> "netfail"]

Http(status, text) == [kind |-> "http", status |-> status, text |-> text]

\* Response.ok
Ok(res) == res.status >= 200 /\ res.status <= 299

JsonHeaders == {<<"Content-Type", "application/json">>}

\* no outbound request was sent
NoRequest == [sent |-> FALSE]

PromptUpstreamUrl == "http://3.95.246.95:5000/params"

\* NextResponse.json(data, {status})
NextResponseJson(data, status) == Http(status, JSONstringify(data))

----------------------------------------------------------------------------
(* Prompt Relay: POST /api/prompt *)

PromptFailedBody == [error |-> <<"Failed to fetch prompt API">>]

\* the outer catch
PromptCatch == NextResponseJson(PromptFailedBody, 500)

\* the outbound request to the fixed upstream
PromptForward(body) ==
    [url |-> PromptUpstreamUrl, method |-> "POST", headers |-> JsonHeaders,
     body |-> JSONstringify(body)]

\* an inner catch that answers like the outer one
PromptNonJsonGeneric(responseText) == PromptCatch

\* the inner catch: the upstream's text did not parse
PromptNonJson(responseText) ==
    NextResponseJson(
        [error |-> <<"API returned non-JSON response: ", responseText[2]>>], 500)

\* the handler without its `!response.ok` check
PromptAnswerUnchecked(up) ==
    IF up.kind = "netfail" THEN PromptCatch
    ELSE LET responseText == up.text
             parsed == JSONparse(responseText)
         IN  IF parsed.ok THEN NextResponseJson(parsed.value, 200)
             ELSE PromptNonJson(responseText)

\* What the handler answers once its upstream fetch settled to `up`.
PromptAnswer(up) ==
    IF up.kind = "netfail" THEN PromptCatch
    ELSE IF ~Ok(up) THEN PromptCatch
    ELSE LET responseText == up.text
             parsed == JSONparse(responseText)
         IN  IF parsed.ok THEN NextResponseJson(parsed.value, 200)
             ELSE PromptNonJson(responseText)

\* The handler on a request with text `reqText`, its upstream settling to `up`:
\* the request it forwards and the response it returns.
PromptPOST(reqText, up) ==
    LET body == JSONparse(reqText)
    IN  IF ~body.ok THEN [fwd |-> NoRequest, resp |-> PromptCatch]
        ELSE [fwd |-> PromptForward(body.value), resp |-> PromptAnswer(up)]

----------------------------------------------------------------------------
(* Data Relay: POST /api/data *)

DataFailedBody == [error |-> <<"Failed to fetch data API">>]

DataCatch == NextResponseJson(DataFailedBody, 500)

\* the outbound request built as the Prompt Relay builds its own
DataForwardWithBody(apiUrl, body) ==
    [url |-> apiUrl, method |-> "POST", headers |-> JsonHeaders,
     body |-> JSONstringify(body)]

\* the outbound request to the caller's URL: no body
DataForward(apiUrl, body) ==
    [url |-> apiUrl, method |-> "POST", headers |-> JsonHeaders]

\* a handler that hands the upstream's failure status on
DataAnswerPassStatus(up) ==
    IF up.kind = "netfail" THEN DataCatch
    ELSE IF ~Ok(up) THEN NextResponseJson(DataFailedBody, up.status)
    ELSE LET data == JSONparse(up.text)
         IN  IF data.ok THEN NextResponseJson(data.value, 200) ELSE DataCatch

DataAnswer(up) ==
    IF up.kind = "netfail" THEN DataCatch
    ELSE IF ~Ok(up) THEN DataCatch
    ELSE LET data == JSONparse(up.text)
         IN  IF data.ok THEN NextResponseJson(data.value, 200) ELSE DataCatch

\* fetch(undefined) throws before anything is sent: "undefined" is no URL
IsUrl(apiUrl) == apiUrl # Undefined

DataPOST(reqText, up) ==
    LET body == JSONparse(reqText)
    IN  IF ~body.ok \/ IsNull(body.value)
        THEN [fwd |-> NoRequest, resp |-> DataCatch]
        ELSE LET apiUrl == Field(body.value, "apiUrl")
             IN  IF ~IsUrl(apiUrl) THEN [fwd |-> NoRequest, resp |-> DataCatch]
                 ELSE [fwd |-> DataForward(apiUrl, body.value),
                       resp |-> DataAnswer(up)]

----------------------------------------------------------------------------
(* The chat orchestrator: GreensboroAIChat *)

NoItem == [none |-> TRUE]

GreetingText ==
    <<"Welcome to your intelligent guide to Greensboro! I'm here to help you discover amazing events, attractions, dining, and experiences throughout the Gate City. What would you like to explore today?">>

ErrorText ==
    <<"I encountered an error while searching. Please try again or check your connection.">>

SummaryText(count, currentInput) ==
    <<"I found ">> \o ToString(count) \o <<" great results for \"">>
        \o currentInput \o <<"\". Here's what I discovered:">>

welcomeMessage(clock) ==
    [id |-> <<"1">>, type |-> "assistant", content |-> GreetingText,
     timestamp |-> clock]

userMessage(clock, text) ==
    [id |-> ToString(clock), type |-> "user", content |-> text,
     timestamp |-> clock]

assistantMessage(clock, count, currentInput) ==
    [id |-> ToString(clock + 1), type |-> "assistant",
     content |-> SummaryText(count, currentInput), timestamp |-> clock]

resultsMessage(clock, data) ==
    [id |-> ToString(clock + 2), type |-> "results", content |-> <<>>,
     timestamp |-> clock, data |-> data]

errorMessage(clock) ==
    [id |-> ToString(clock + 1), type |-> "assistant", content |-> ErrorText,
     timestamp |-> clock]

\* no response yet
Pending == [kind |-> "pending"]

\* the request of callPromptAPI
PromptRequest(question) ==
    [url |-> "/api/prompt", method |-> "POST", headers |-> JsonHeaders,
     body |-> JSONstringify([question |-> question])]

\* a callDataAPI that always asks for the events listing
DataRequestEvents(apiUrl) ==
    [url |-> "/api/data", method |-> "POST", headers |-> JsonHeaders,
     body |-> JSONstringify([apiUrl |-> "http://data/events"])]

\* the request of callDataAPI
DataRequest(apiUrl) ==
    [url |-> "/api/data", method |-> "POST", headers |-> JsonHeaders,
     body |-> JSONstringify([apiUrl |-> apiUrl])]

\* callPromptAPI and callDataAPI once fetch settled to `res`: the parsed body,
\* or a throw
CallResult(res) ==
    IF res.kind = "netfail" THEN [ok |-> FALSE]
    ELSE IF ~Ok(res) THEN [ok |-> FALSE]
    ELSE JSONparse(res.text)

\* the guard with && for ||
SubmitRejectedBothOnly(text, loading) == Trim(text) = <<>> /\ loading

\* no guard at all
SubmitNeverRejected(text, loading) == FALSE

\* the submit guard: `!input.trim() || isLoading`
SubmitRejected(text, loading) == Trim(text) = <<>> \/ loading

\* dataResponse.data?.length || 0
ResultCount(dataResponse) ==
    IF HasField(dataResponse, "data") THEN Len(dataResponse.data) ELSE 0

Reverse(q) == [k \in 1..Len(q) |-> q[Len(q) + 1 - k]]

\* the payload, newest record first
ResultDataReversed(dataResponse) ==
    IF HasField(dataResponse, "data") THEN Reverse(dataResponse.data) ELSE <<>>

\* dataResponse.data || []
ResultData(dataResponse) ==
    IF HasField(dataResponse, "data") THEN dataResponse.data ELSE <<>>

\* the card's price line
CardPrice(item) ==
    IF item.price = "0" \/ item.price = "free" THEN "Free" ELSE item.price

\* `item` is no binding in the dialog's scope: reading it throws
ReferenceError == "ReferenceError: item is not defined"

\* the dialog's price line: `selectedItem.price === "0" || item.price === "free"`
DetailPrice(selected) ==
    IF selected.price = "0" THEN "Free" ELSE ReferenceError

----------------------------------------------------------------------------
(* Inputs *)

ItemA == [id |-> "a", price |-> "0"]

ItemB == [id |-> "b", price |-> "free"]

ItemC == [id |-> "c", price |-> "$5"]

Items == {ItemA, ItemB, ItemC}

\* the `data` sequences the data service can answer with
Listings == {<<>>, <<ItemA, ItemB>>, <<ItemC, ItemB, ItemA>>}

\* what the user can type
Inputs == {<<>>, <<Blank>>, <<Blank, "q">>}

Urls == {"http://data/events", "http://data/places"}

RawText == <<"raw", "<html>">>

\* what the natural-language service can answer
PromptUpstreams ==
    {NetFail, Http(503, RawText), Http(200, RawText),
     Http(500, JSONstringify([api_url |-> "http://data/events", intent |-> "events"])),
     Http(200, JSONstringify(JsonNull)),
     Http(200, JSONstringify([intent |-> "events"]))}
    \cup {Http(200, JSONstringify([api_url |-> u, intent |-> "events"])) : u \in Urls}

\* what the data service can answer
DataUpstreams ==
    {NetFail, Http(503, RawText), Http(200, RawText),
     Http(500, JSONstringify([data |-> <<ItemA>>])),
     Http(200, JSONstringify(JsonNull)),
     Http(200, JSONstringify([total |-> "0"]))}
    \cup {Http(200, JSONstringify([data |-> d])) : d \in Listings}

\* what any caller can send to /api/prompt
PromptRequests ==
    {RawText, JSONstringify(JsonNull)}
    \cup {PromptRequest(q).body : q \in Inputs}
    \cup {JSONstringify([question |-> <<"q">>, apiUrl |-> u]) : u \in Urls}

\* what any caller can send to /api/data
DataRequests ==
    {RawText, JSONstringify(JsonNull), JSONstringify([question |-> <<"q">>])}
    \cup {DataRequest(u).body : u \in Urls \cup {Undefined}}
    \cup {JSONstringify([apiUrl |-> u, question |-> <<"q">>, token |-> "secret"]) :
             u \in Urls}

----------------------------------------------------------------------------
(* State *)

NoExchange == [relay |-> "none"]

Init ==
    /\ showWelcome = TRUE
    /\ selectedItem = NoItem
    /\ messages = <<>>
    /\ input = <<>>
    /\ isLoading = FALSE
    /\ runs = <<>>
    /\ now = Epoch
    /\ exchange = NoExchange

RemoveAt(s, i) == SubSeq(s, 1, i - 1) \o SubSeq(s, i + 1, Len(s))

\* the number of submissions accepted so far
Submitted == Cardinality({k \in DOMAIN messages : messages[k].type = "user"})

\* the items some card of the transcript shows
Shown ==
    UNION {{messages[k].data[j] : j \in DOMAIN messages[k].data} :
           k \in {m \in DOMAIN messages : messages[m].type = "results"}}

----------------------------------------------------------------------------
(* Handlers *)

Tick ==
    /\ now < Epoch + MaxClock
    /\ now' = now + 1
    /\ UNCHANGED <<showWelcome, selectedItem, messages, input, isLoading, runs, exchange>>

\* a Get Started that stays within reach after the welcome screen
handleGetStartedAnytime ==
    /\ showWelcome' = FALSE
    /\ messages' = <<welcomeMessage(now)>>
    /\ UNCHANGED <<selectedItem, input, isLoading, runs, now, exchange>>

handleGetStarted ==
    /\ showWelcome
    /\ showWelcome' = FALSE
    /\ messages' = <<welcomeMessage(now)>>
    /\ UNCHANGED <<selectedItem, input, isLoading, runs, now, exchange>>

\* the input's onChange and the quick actions; both are disabled while loading
setInput(text) ==
    /\ ~showWelcome
    /\ ~isLoading
    /\ input' = text
    /\ UNCHANGED <<showWelcome, selectedItem, messages, isLoading, runs, now, exchange>>

\* a submit that also dismisses the dialog
handleSubmitDismissing ==
    /\ ~showWelcome
    /\ IF SubmitRejected(input, isLoading)
       THEN UNCHANGED vars
       ELSE /\ Submitted < MaxSubmits
            /\ messages' = Append(messages, userMessage(now, input))
            /\ input' = <<>>
            /\ isLoading' = TRUE
            /\ selectedItem' = NoItem
            /\ runs' = Append(runs, [pc |-> "prompt", currentInput |-> input,
                                     req |-> PromptRequest(input),
                                     up |-> Pending, res |-> Pending])
            /\ UNCHANGED <<showWelcome, now, exchange>>

\* the part of handleSubmit up to its first await
handleSubmit ==
    /\ ~showWelcome
    /\ IF SubmitRejected(input, isLoading)
       THEN UNCHANGED vars
       ELSE /\ Submitted < MaxSubmits
            /\ messages' = Append(messages, userMessage(now, input))
            /\ input' = <<>>
            /\ isLoading' = TRUE
            /\ runs' = Append(runs, [pc |-> "prompt", currentInput |-> input,
                                     req |-> PromptRequest(input),
                                     up |-> Pending, res |-> Pending])
            /\ UNCHANGED <<showWelcome, selectedItem, now, exchange>>

\* a catch that only logs
CatchSilent(i) ==
    /\ messages' = messages
    /\ isLoading' = FALSE
    /\ runs' = RemoveAt(runs, i)

\* a catch with no finally block
CatchNoFinally(i) ==
    /\ messages' = Append(messages, errorMessage(now))
    /\ isLoading' = isLoading
    /\ runs' = RemoveAt(runs, i)

\* a catch that puts the error message in the place of the question
CatchReplacing(i) ==
    /\ messages' = Append(SubSeq(messages, 1, Len(messages) - 1), errorMessage(now))
    /\ isLoading' = FALSE
    /\ runs' = RemoveAt(runs, i)

\* the catch and finally blocks of handleSubmit, for the execution i
Catch(i) ==
    /\ messages' = Append(messages, errorMessage(now))
    /\ isLoading' = FALSE
    /\ runs' = RemoveAt(runs, i)

\* /api/prompt handles the request of execution i
PromptRelayed(i, up) ==
    /\ runs[i].pc = "prompt"
    /\ runs[i].res = Pending
    /\ LET handled == PromptPOST(runs[i].req.body, up)
       IN  runs' = [runs EXCEPT
                      ![i].up = IF handled.fwd = NoRequest THEN Pending ELSE up,
                      ![i].res = handled.resp]
    /\ UNCHANGED <<showWelcome, selectedItem, messages, input, isLoading, now, exchange>>

\* /api/data handles the request of execution i
DataRelayed(i, up) ==
    /\ runs[i].pc = "data"
    /\ runs[i].res = Pending
    /\ LET handled == DataPOST(runs[i].req.body, up)
       IN  runs' = [runs EXCEPT
                      ![i].up = IF handled.fwd = NoRequest THEN Pending ELSE up,
                      ![i].res = handled.resp]
    /\ UNCHANGED <<showWelcome, selectedItem, messages, input, isLoading, now, exchange>>

\* the browser's fetch to the relay itself rejects
RelayUnreachable(i) ==
    /\ runs[i].res = Pending
    /\ runs' = [runs EXCEPT ![i].res = NetFail]
    /\ UNCHANGED <<showWelcome, selectedItem, messages, input, isLoading, now, exchange>>

\* handleSubmit resumes after `await callPromptAPI(currentInput)`
PromptSettled(i) ==
    /\ runs[i].pc = "prompt"
    /\ runs[i].res # Pending
    /\ LET apiResponse == CallResult(runs[i].res)
       IN  IF ~apiResponse.ok \/ IsNull(apiResponse.value)
           THEN Catch(i)
           ELSE /\ runs' = [runs EXCEPT
                      ![i].pc = "data",
                      ![i].req = DataRequest(Field(apiResponse.value, "api_url")),
                      ![i].up = Pending,
                      ![i].res = Pending]
                /\ UNCHANGED <<messages, isLoading>>
    /\ UNCHANGED <<showWelcome, selectedItem, input, now, exchange>>

\* a continuation that shows a failed data call as an empty result
DataSettledLenient(i) ==
    /\ runs[i].pc = "data"
    /\ runs[i].res # Pending
    /\ LET dataResponse == CallResult(runs[i].res)
       IN  /\ messages' = messages \o
                 <<assistantMessage(now,
                       IF dataResponse.ok /\ ~IsNull(dataResponse.value)
                       THEN ResultCount(dataResponse.value) ELSE 0,
                       runs[i].currentInput),
                   resultsMessage(now,
                       IF dataResponse.ok /\ ~IsNull(dataResponse.value)
                       THEN ResultData(dataResponse.value) ELSE <<>>)>>
           /\ isLoading' = FALSE
           /\ runs' = RemoveAt(runs, i)
    /\ UNCHANGED <<showWelcome, selectedItem, input, now, exchange>>

\* handleSubmit resumes after `await callDataAPI(apiResponse.api_url)`
DataSettled(i) ==
    /\ runs[i].pc = "data"
    /\ runs[i].res # Pending
    /\ LET dataResponse == CallResult(runs[i].res)
       IN  IF ~dataResponse.ok \/ IsNull(dataResponse.value)
           THEN Catch(i)
           ELSE /\ messages' = messages \o
                      <<assistantMessage(now, ResultCount(dataResponse.value),
                                         runs[i].currentInput),
                        resultsMessage(now, ResultData(dataResponse.value))>>
                /\ isLoading' = FALSE
                /\ runs' = RemoveAt(runs, i)
    /\ UNCHANGED <<showWelcome, selectedItem, input, now, exchange>>

\* View Details that opens the dialog only when it is closed
SelectWhenClosed(item) ==
    /\ ~showWelcome
    /\ item \in Shown
    /\ selectedItem' = IF selectedItem = NoItem THEN item ELSE selectedItem
    /\ UNCHANGED <<showWelcome, messages, input, isLoading, runs, now, exchange>>

\* a View Details that opens a record no card shows
SelectUnshown(item) ==
    /\ ~showWelcome
    /\ selectedItem' = item
    /\ UNCHANGED <<showWelcome, messages, input, isLoading, runs, now, exchange>>

\* View Details on a card
Select(item) ==
    /\ ~showWelcome
    /\ item \in Shown
    /\ selectedItem' = item
    /\ UNCHANGED <<showWelcome, messages, input, isLoading, runs, now, exchange>>

\* the dialog's onOpenChange
Deselect ==
    /\ ~showWelcome
    /\ selectedItem' = NoItem
    /\ UNCHANGED <<showWelcome, messages, input, isLoading, runs, now, exchange>>

Next ==
    \/ Tick
    \/ handleGetStarted
    \/ \E text \in Inputs : setInput(text)
    \/ handleSubmit
    \/ \E i \in DOMAIN runs : \E up \in PromptUpstreams : PromptRelayed(i, up)
    \/ \E i \in DOMAIN runs : \E up \in DataUpstreams : DataRelayed(i, up)
    \/ \E i \in DOMAIN runs : RelayUnreachable(i)
    \/ \E i \in DOMAIN runs : PromptSettled(i)
    \/ \E i \in DOMAIN runs : DataSettled(i)
    \/ \E item \in Items : Select(item)
    \/ Deselect

Spec == Init /\ [][Next]_vars

\* The submission's relay calls complete and its continuation is scheduled.
Relayed ==
    \/ \E i \in DOMAIN runs : \E up \in PromptUpstreams : PromptRelayed(i, up)
    \/ \E i \in DOMAIN runs : \E up \in DataUpstreams : DataRelayed(i, up)

Settled ==
    \/ \E i \in DOMAIN runs : PromptSettled(i)
    \/ \E i \in DOMAIN runs : DataSettled(i)

FairSpec == Spec /\ WF_vars(Relayed) /\ WF_vars(Settled)

----------------------------------------------------------------------------
(* The relay handlers under any caller *)

\* /api/prompt answers a caller's request
PromptCalled(reqText, up) ==
    /\ exchange' = [relay |-> "prompt", req |-> reqText, up |-> up,
                    fwd |-> PromptPOST(reqText, up).fwd,
                    resp |-> PromptPOST(reqText, up).resp]
    /\ UNCHANGED uiVars

\* /api/data answers a caller's request
DataCalled(reqText, up) ==
    /\ exchange' = [relay |-> "data", req |-> reqText, up |-> up,
                    fwd |-> DataPOST(reqText, up).fwd,
                    resp |-> DataPOST(reqText, up).resp]
    /\ UNCHANGED uiVars

RelayNext ==
    \/ \E reqText \in PromptRequests : \E up \in PromptUpstreams :
          PromptCalled(reqText, up)
    \/ \E reqText \in DataRequests : \E up \in DataUpstreams :
          DataCalled(reqText, up)

RelaySpec == Init /\ [][RelayNext]_vars

----------------------------------------------------------------------------
(* Properties *)

\* empty or whitespace only
BlankText(s) == \A k \in DOMAIN s : s[k] = Blank

Last(s) == s[Len(s)]

IsErrorMessage(m) == m.type = "assistant" /\ m.content = ErrorText

\* a submit the guard lets through
Accepting == ~showWelcome /\ ~isLoading /\ ~BlankText(input)

\* the transcript gained the summary and the results message, and nothing else
AppendedPair ==
    /\ Len(messages') = Len(messages) + 2
    /\ SubSeq(messages', 1, Len(messages)) = messages
    /\ messages'[Len(messages) + 1].type = "assistant"
    /\ messages'[Len(messages) + 1].content # ErrorText
    /\ messages'[Len(messages) + 2].type = "results"

\* the transcript gained the generic error message, and nothing else
AppendedError ==
    /\ Len(messages') = Len(messages) + 1
    /\ SubSeq(messages', 1, Len(messages)) = messages
    /\ IsErrorMessage(Last(messages'))

\* the transcript gained one user message holding the input, and nothing else
AppendedUser ==
    /\ Len(messages') = Len(messages) + 1
    /\ SubSeq(messages', 1, Len(messages)) = messages
    /\ Last(messages').type = "user"
    /\ Last(messages').content = input

\* C1: an accepted submit appends exactly one user message in the submit step;
\* while the submission is in flight nothing else is appended; the step that
\* ends it appends either the summary and the results message or the one error
\* message; and, relay calls completing, every submission in flight ends.
C1_SubmitOutcome ==
    /\ [][/\ (handleSubmit /\ Accepting) => AppendedUser
          /\ (runs # <<>> /\ Len(runs') = Len(runs)) => messages' = messages
          /\ Len(runs') < Len(runs) =>
                 /\ (AppendedPair \/ AppendedError)
                 /\ ~(AppendedPair /\ AppendedError)]_vars
    /\ [](runs # <<>> => <>(runs = <<>>))

\* both outcomes happened: one submission ended in results, one in the error
C1_Witness ==
    /\ runs = <<>>
    /\ Submitted = 2
    /\ \E k \in DOMAIN messages : messages[k].type = "results"
    /\ \E k \in DOMAIN messages : IsErrorMessage(messages[k])

\* C2: a submit event while loading, or with an empty or whitespace-only input,
\* changes neither the transcript, the loading flag nor the input, and issues
\* no relay call.
C2_RejectedSubmitNoOp ==
    [][(handleSubmit /\ (isLoading \/ BlankText(input))) =>
          UNCHANGED <<messages, isLoading, input, runs>>]_vars

\* a submission is in flight, and a submit event would meet isLoading
C2_Witness == ~showWelcome /\ isLoading /\ runs # <<>> /\ BlankText(input)

\* a success status
Success(status) == status \in 200..299

\* the natural-language service answered execution i's call with a failure status
PromptRefused(i) ==
    /\ runs[i].pc = "prompt"
    /\ runs[i].up.kind = "http"
    /\ ~Success(runs[i].up.status)

\* C3: once the natural-language service has answered the Prompt Relay with a
\* non-success status, the submission never issues a Data Relay call: its only
\* further step appends, right after the user message, the generic error
\* message and ends it; and that step comes.
C3_PromptFailureNoDataCall ==
    /\ [][\A i \in DOMAIN runs :
             PromptRefused(i) =>
                \/ runs' = runs /\ messages' = messages
                \/ /\ runs' = RemoveAt(runs, i)
                   /\ Last(messages).type = "user"
                   /\ AppendedError]_vars
    /\ []((\E i \in DOMAIN runs : PromptRefused(i)) =>
            <>(runs = <<>> /\ messages # <<>> /\ IsErrorMessage(Last(messages))))

\* the upstream answered 503, the relay answered 500, the continuation is due
C3_Witness ==
    /\ runs # <<>>
    /\ PromptRefused(1)
    /\ runs[1].up.status = 503
    /\ runs[1].res.status = 500

\* the data service answered execution i's call with a `data` sequence
DataDelivered(i) ==
    /\ runs[i].pc = "data"
    /\ runs[i].up.kind = "http"
    /\ Success(runs[i].up.status)
    /\ runs[i].up.text[1] = "json"
    /\ "data" \in DOMAIN runs[i].up.text[2]

\* C4: when the data service answered with a `data` sequence of N records, the
\* step that ends the submission appends a results message whose payload is
\* that sequence: N entries, the same records in the same order.
C4_PayloadPreserved ==
    [][\A i \in DOMAIN runs :
          (DataDelivered(i) /\ runs' # runs) =>
             /\ AppendedPair
             /\ Len(Last(messages').data) = Len(runs[i].up.text[2].data)
             /\ Last(messages').data = runs[i].up.text[2].data]_vars

\* a results message carries three records, in the data service's order
C4_Witness ==
    \E k \in DOMAIN messages :
        /\ messages[k].type = "results"
        /\ messages[k].data = <<ItemC, ItemB, ItemA>>

\* C5: the selection is one item or none; View Details on X makes it X,
\* whatever it was, and dismissing the dialog makes it none.
C5_SingleSelection ==
    /\ [](selectedItem \in Items \cup {NoItem})
    /\ [](\A x \in Shown : ENABLED (Select(x) /\ selectedItem' = x))
    /\ [](~showWelcome => ENABLED (Deselect /\ selectedItem' = NoItem))
    /\ [][/\ \A x \in Items : Select(x) => selectedItem' = x
          /\ Deselect => selectedItem' = NoItem]_vars

\* an item is selected while another one is on show
C5_Witness == selectedItem = ItemB /\ ItemC \in Shown

\* the price line the claim asks for
ShownPrice(price) == IF price = "0" \/ price = "free" THEN "Free" ELSE price

\* C6: on every card and in the detail view of the selected item, a price of
\* "0" or "free" is displayed as "Free" and any other price as it is.
C6_PriceDisplay ==
    /\ \A item \in Shown : CardPrice(item) = ShownPrice(item.price)
    /\ selectedItem # NoItem =>
          DetailPrice(selectedItem) = ShownPrice(selectedItem.price)

\* the Data Relay forwarded a caller's request
DataForwarded == exchange.relay = "data" /\ exchange.fwd # NoRequest

\* C7: the request the Data Relay sends out is a POST to the caller's URL with
\* the content-type header and nothing else: no body, no other field of the
\* caller's request.
C7_DataForwardBare ==
    DataForwarded =>
       /\ DOMAIN exchange.fwd = {"url", "method", "headers"}
       /\ exchange.fwd.method = "POST"
       /\ exchange.fwd.headers = {<<"Content-Type", "application/json">>}
       /\ exchange.fwd.url = exchange.req[2].apiUrl

\* a request that carried more than the URL has been forwarded
C7_Witness == DataForwarded /\ "token" \in DOMAIN exchange.req[2]

\* the three failure kinds of an upstream call
NonSuccess(up) == up.kind = "http" /\ ~Success(up.status)

Unparsable(up) == up.kind = "http" /\ Success(up.status) /\ up.text[1] # "json"

Failed(up) == up.kind = "netfail" \/ NonSuccess(up) \/ Unparsable(up)

\* a relay forwarded a caller's request and its upstream call failed
RelayFailed ==
    /\ exchange.relay \in {"prompt", "data"}
    /\ exchange.fwd # NoRequest
    /\ Failed(exchange.up)

\* a 500 whose body is a JSON object with an `error` field
ErrorEnvelope(resp) ==
    /\ resp.kind = "http"
    /\ resp.status = 500
    /\ resp.text[1] = "json"
    /\ "error" \in DOMAIN resp.text[2]

\* what the relay that handled the exchange answers when its upstream settles to up
Reanswer(up) ==
    IF exchange.relay = "prompt" THEN PromptPOST(exchange.req, up).resp
    ELSE DataPOST(exchange.req, up).resp

Upstreams == IF exchange.relay = "prompt" THEN PromptUpstreams ELSE DataUpstreams

\* C8 as stated: in both relays every failure kind gives the same 500 response
\* with an `error` field.
C8_UniformFailure ==
    RelayFailed =>
       /\ ErrorEnvelope(exchange.resp)
       /\ \A up \in Upstreams : Failed(up) => Reanswer(up) = exchange.resp

\* C8 as amended: in both relays every failure kind gives a 500 response with an
\* `error` field; the Data Relay's response is the same for the three kinds; the
\* Prompt Relay's is the same for a non-success status and a network failure.
C8_FailureEnvelope ==
    RelayFailed =>
       /\ ErrorEnvelope(exchange.resp)
       /\ exchange.relay = "data" =>
             \A up \in Upstreams : Failed(up) => Reanswer(up) = exchange.resp
       /\ (exchange.relay = "prompt" /\ ~Unparsable(exchange.up)) =>
             \A up \in Upstreams :
                (Failed(up) /\ ~Unparsable(up)) => Reanswer(up) = exchange.resp

\* the Data Relay answered a success status whose body did not parse
C8_Witness ==
    DataForwarded /\ Unparsable(exchange.up) /\ ErrorEnvelope(exchange.resp)

\* the Prompt Relay forwarded a request and the upstream's body did not parse
PromptMalformed ==
    /\ exchange.relay = "prompt"
    /\ exchange.fwd # NoRequest
    /\ Unparsable(exchange.up)

\* C9: when the upstream answers the Prompt Relay a success status with a body
\* that is no JSON, the handler's error carries the raw text, and its response
\* differs from the one for an unreachable or non-success upstream.
C9_MalformedCarriesText ==
    PromptMalformed =>
       /\ ErrorEnvelope(exchange.resp)
       /\ Last(exchange.resp.text[2].error) = exchange.up.text[2]
       /\ \A up \in PromptUpstreams :
             (up.kind = "netfail" \/ NonSuccess(up)) =>
                Reanswer(up) # exchange.resp

C9_Witness == PromptMalformed /\ exchange.up.text = RawText

\* relay calls no response has come back for
Outstanding == {i \in DOMAIN runs : runs[i].res = Pending}

\* C10: at most one execution of the submit path is in progress and at most
\* one relay call is outstanding; an execution starts only in the step of a
\* submit event the guard lets through, so a dropped submit never runs later.
C10_SingleSubmission ==
    /\ [](Len(runs) <= 1 /\ Cardinality(Outstanding) <= 1)
    /\ [][Len(runs') > Len(runs) =>
             (runs = <<>> /\ Accepting /\ handleSubmit)]_vars

\* the second submission waits for the Data Relay
C10_Witness ==
    /\ Submitted = 2
    /\ Len(runs) = 1
    /\ runs[1].pc = "data"
    /\ runs[1].res = Pending

\* execution i's Prompt Relay call came back with a success status and a JSON
\* value that is not null
PromptResolved(i) ==
    /\ runs[i].pc = "prompt"
    /\ runs[i].res.kind = "http"
    /\ Success(runs[i].res.status)
    /\ runs[i].res.text[1] = "json"
    /\ ~IsNull(runs[i].res.text[2])

\* C11: an execution issues its Data Relay call only in a step taken from a
\* Prompt Relay call of its own that resolved successfully, and the call
\* carries the `api_url` of that response; no Data Relay call exists next to a
\* Prompt Relay call, and an execution whose Prompt Relay call resolved
\* successfully can go on to the Data Relay.
C11_DataAfterPrompt ==
    /\ [](\A i, j \in DOMAIN runs :
             ~(runs[i].pc = "prompt" /\ runs[j].pc = "data"))
    /\ [](\A i \in DOMAIN runs :
             PromptResolved(i) =>
                ENABLED (PromptSettled(i) /\ Len(runs') = Len(runs)
                            /\ runs'[i].pc = "data"))
    /\ [][\A i \in DOMAIN runs' :
             (runs'[i].pc = "data" /\ runs' # runs /\ runs'[i].res = Pending) =>
                /\ i \in DOMAIN runs
                /\ PromptResolved(i)
                /\ runs'[i].req.url = "/api/data"
                /\ runs'[i].req.body =
                      JSONstringify([apiUrl |->
                          Field(runs[i].res.text[2], "api_url")])]_vars

\* the Prompt Relay answered the places listing's URL and the Data Relay call
\* for it is outstanding
C11_Witness ==
    /\ Len(runs) = 1
    /\ runs[1].pc = "data"
    /\ runs[1].res = Pending
    /\ runs[1].req.body[2].apiUrl = "http://data/places"

\* s is a prefix of t
IsPrefix(s, t) == Len(s) <= Len(t) /\ SubSeq(t, 1, Len(s)) = s

\* C12: in every step (start, submit, the end of a submission in results or in
\* the error, select, deselect, and any other) the transcript before the step
\* is a prefix of the transcript after it.
C12_AppendOnly == [][IsPrefix(messages, messages')]_vars

\* the greeting, a question and its error, a question and its results, with an
\* item selected
C12_Witness ==
    /\ Len(messages) = 6
    /\ IsErrorMessage(messages[3])
    /\ messages[6].type = "results"
    /\ selectedItem # NoItem

\* the transcript is the greeting and nothing else
OnlyGreeting(t) ==
    /\ Len(t) = 1
    /\ t[1].type = "assistant"
    /\ t[1].content = GreetingText

\* C13: the system starts on the welcome screen with an empty transcript;
\* on the welcome screen the transcript is empty, nothing is in flight and no
\* step but the start changes anything of the chat; the start is possible
\* there, clears the flag and leaves the greeting as the whole transcript;
\* the flag is never set again and no second start is possible.
C13_WelcomeOnce ==
    /\ (showWelcome = TRUE /\ messages = <<>>)
    /\ [](showWelcome =>
             /\ messages = <<>> /\ runs = <<>> /\ ~isLoading
             /\ ENABLED (handleGetStarted /\ ~showWelcome' /\ OnlyGreeting(messages')))
    /\ [](~showWelcome => ~ENABLED handleGetStarted)
    /\ [][/\ showWelcome =>
                \/ UNCHANGED <<showWelcome, messages, input, isLoading, runs>>
                \/ handleGetStarted
          /\ handleGetStarted =>
                showWelcome /\ ~showWelcome' /\ OnlyGreeting(messages')
          /\ ~showWelcome => ~showWelcome']_vars

\* the start happened, and a question was accepted after it
C13_Witness ==
    /\ ~showWelcome
    /\ OnlyGreeting(SubSeq(messages, 1, 1))
    /\ Submitted = 1

\* a relay call of the page came back failed: the fetch rejected, or the
\* response has a non-success status, or its body is no JSON
CallFailed(res) ==
    \/ res.kind = "netfail"
    \/ res.kind = "http" /\ (~Success(res.status) \/ res.text[1] # "json")

\* the step ends execution i with the generic error message and nothing else
EndsInError(i) ==
    /\ runs' = RemoveAt(runs, i)
    /\ isLoading' = FALSE
    /\ messages' = Append(messages,
                       [id |-> Last(messages').id, type |-> "assistant",
                        content |-> ErrorText, timestamp |-> Last(messages').timestamp])
    /\ UNCHANGED <<showWelcome, selectedItem, input>>

\* C14: a failed Data Relay call, like a failed Prompt Relay call, lets the
\* execution take one step only, which appends one assistant message with the
\* generic error text, no summary and no results message, and clears the
\* loading flag; both failures leave the same message but for the clock, and
\* that step is possible.
C14_DataFailureSameAsPrompt ==
    /\ [](\A i \in DOMAIN runs :
             CallFailed(runs[i].res) =>
                ENABLED ((PromptSettled(i) \/ DataSettled(i)) /\ runs' # runs))
    /\ [][\A i \in DOMAIN runs :
             (CallFailed(runs[i].res) /\ runs' # runs) =>
                /\ EndsInError(i)
                /\ Last(messages') = errorMessage(now)]_vars

\* the Data Relay call of the second question failed after the first question
\* had ended in the error message
C14_Witness ==
    /\ Len(runs) = 1
    /\ runs[1].pc = "data"
    /\ CallFailed(runs[1].res)
    /\ Len(messages) = 4
    /\ IsErrorMessage(messages[3])

\* the positions of the results messages
ResultsAt == {k \in DOMAIN messages : messages[k].type = "results"}

\* the items of the most recent results message
LatestShown ==
    IF ResultsAt = {} THEN {}
    ELSE LET k == CHOOSE m \in ResultsAt : \A n \in ResultsAt : n <= m
         IN  {messages[k].data[j] : j \in DOMAIN messages[k].data}

\* C15 as stated: a selected item is in the payload of the most recent results
\* message.
C15_SelectionInLatest == selectedItem # NoItem => selectedItem \in LatestShown

\* C15 as amended: a selected item is in the payload of some results message
\* of the transcript, the most recent or an older one; View Details is
\* possible on the items of every results message and on no other; and a
\* selection changes only by View Details or by dismissing the dialog, so it
\* stays when a later submission appends a newer results message.
C15_SelectionOnShow ==
    /\ [](selectedItem # NoItem => selectedItem \in Shown)
    /\ [](\A x \in Items :
             (ENABLED Select(x)) <=>
                \E k \in ResultsAt : \E j \in DOMAIN messages[k].data :
                    messages[k].data[j] = x)
    /\ [][selectedItem' # selectedItem =>
             /\ messages' = messages
             /\ selectedItem' \in Shown \cup {NoItem}]_vars

\* the selected item is on a card of an older results message only
C15_Witness ==
    /\ selectedItem = ItemC
    /\ Cardinality(ResultsAt) = 2
    /\ ItemC \notin LatestShown

\* C16: View Details and the dismissal of the dialog leave the transcript,
\* the loading flag, the input and the welcome flag as they are, and are
\* possible whether or not a submission is loading; the start, a submit, and
\* the end of a submission in results or in the error leave the selection as
\* it is.
C16_SelectionIndependent ==
    /\ [](\A x \in Shown : ENABLED (Select(x) /\ selectedItem' = x))
    /\ [](~showWelcome => ENABLED (Deselect /\ selectedItem' = NoItem))
    /\ [][/\ ((\E x \in Items : Select(x)) \/ Deselect) =>
                UNCHANGED <<messages, isLoading, input, showWelcome, runs>>
          /\ (handleGetStarted \/ handleSubmit \/ Settled \/ Relayed) =>
                selectedItem' = selectedItem
          /\ <<messages, isLoading, input, showWelcome, runs>>'
                 # <<messages, isLoading, input, showWelcome, runs>> =>
                selectedItem' = selectedItem]_vars

\* an item is selected while the second submission is loading
C16_Witness ==
    /\ isLoading
    /\ Submitted = 2
    /\ selectedItem = ItemB
    /\ ENABLED (Select(ItemA) /\ selectedItem' = ItemA)

\* the executions suspended at the await of a relay call
Awaiting == {i \in DOMAIN runs : runs[i].pc \in {"prompt", "data"}}

\* C17: the loading flag is set exactly when an execution awaits a relay
\* call; it is set by the step of an accepted submit and by no other, and is
\* cleared by the step that appends the outcome, the pair or the error, and by
\* no other; while the awaited call has not come back no step clears it.
C17_LoadingIffPending ==
    /\ [](isLoading <=> Awaiting # {})
    /\ [][/\ (~isLoading /\ isLoading') <=> (Accepting /\ handleSubmit)
          /\ (isLoading /\ ~isLoading') <=>
                (Len(runs') < Len(runs) /\ (AppendedPair \/ AppendedError))
          /\ (isLoading /\ Outstanding # {}) => isLoading']_vars

\* after a question that ended in results, the next one awaits the Prompt Relay
C17_Witness ==
    /\ isLoading
    /\ Len(messages) = 5
    /\ messages[4].type = "results"
    /\ Len(runs) = 1
    /\ runs[1].pc = "prompt"
    /\ runs[1].res = Pending

\* C18: the ids of the messages of the transcript are pairwise distinct.
C18_DistinctIds ==
    \A i, j \in DOMAIN messages : i # j => messages[i].id # messages[j].id

====
